---- MODULE Spec2Model ----
(***************************************************************************)
(* user-buy-list: the purchase pipeline.                                   *)
(*   customer-facing     (services/customer-facing/index.ts): POST /buy    *)
(*       validates a submission and publishes it to the purchases topic,   *)
(*       keyed by userid.                                                  *)
(*   customer-management (services/customer-management/index.ts): a       *)
(*       consumer group member that stores every message it can decode,    *)
(*       and the read routes over the store.                               *)
(* The event stream (Kafka, through kafkajs) and the document store        *)
(* (MongoDB, through mongoose) are modelled at their interface: a send     *)
(* either appends one message and resolves or appends nothing and          *)
(* rejects; a save either inserts one document and resolves or inserts     *)
(* nothing and rejects.                                                    *)
(***************************************************************************)
EXTENDS Integers, Sequences, FiniteSets, TLC

(***************************************************************************)
(* Bounds of the model.                                                    *)
(***************************************************************************)
\* POST /buy requests issued in one behaviour.
MaxReqs == 2
\* Messages appended to the topic by clients other than customer-facing.
MaxForeign == 1
\* Abrupt terminations (and restarts) of the customer-management process.
MaxCrashes == 1
\* Partitions of the purchases topic.
NumPartitions == 2
\* GET /getAllUserBuys requests issued in one behaviour.
MaxReads == 1
\* POST /purchases requests issued in one behaviour.
MaxWrites == 1

ReqIds == 1..MaxReqs
Partitions == 1..NumPartitions

(***************************************************************************)
(* JSON values as a request body or a message payload carries them.        *)
(***************************************************************************)
Undef == [t |-> "undefined", n |-> 0, s |-> ""]
Null == [t |-> "null", n |-> 0, s |-> ""]
Num(k) == [t |-> "number", n |-> k, s |-> ""]
Str(x) == [t |-> "string", n |-> 0, s |-> x]
Bool(b) == [t |-> "boolean", n |-> IF b THEN 1 ELSE 0, s |-> ""]
\* The empty array [] and the one-number array [k].
Arr0 == [t |-> "array", n |-> 0, s |-> "empty"]
Arr1(k) == [t |-> "array", n |-> k, s |-> "one"]
\* The string Date.prototype.toISOString() gives for the instant ms.
IsoStr(ms) == [t |-> "string", n |-> ms, s |-> "iso"]

\* A JavaScript number: NaN, or the integer n.
NaN == [nan |-> TRUE, n |-> 0]
Fin(k) == [nan |-> FALSE, n |-> k]

\* The numeric strings of the model with their values; every other string
\* that is not empty or blank converts to NaN.
NumericStrings == {"2", "0", "-1"}
StrToInt(x) == CASE x = "2" -> 2 [] x = "0" -> 0 [] x = "-1" -> 0 - 1 [] OTHER -> 0
BlankStrings == {"", "   "}

\* Number(v), as ECMAScript's ToNumber converts each kind of value.
ToNumber(v) ==
  CASE v.t = "undefined" -> NaN
    [] v.t = "null" -> Fin(0)
    [] v.t = "boolean" -> Fin(v.n)
    [] v.t = "number" -> Fin(v.n)
    [] v.t = "string" ->
         IF v.s \in BlankStrings THEN Fin(0)
         ELSE IF v.s \in NumericStrings THEN Fin(StrToInt(v.s))
         ELSE NaN
    [] v.t = "array" -> Fin(v.n)
    [] OTHER -> NaN

\* !v : the values JavaScript treats as false.
Falsy(v) ==
  \/ v.t \in {"undefined", "null"}
  \/ v.t = "boolean" /\ v.n = 0
  \/ v.t = "number" /\ v.n = 0
  \/ v.t = "string" /\ v.s = ""

(***************************************************************************)
(* Requests of POST /buy.                                                  *)
(***************************************************************************)
UsernameInputs == {Undef, Null, Str(""), Str("alice")}
UseridInputs == {Undef, Str(""), Str("   "), Str("u1")}
PriceInputs ==
  {Undef, Null, Num(0), Num(0 - 1), Num(1), Str("abc"), Str(""), Str("2"),
   Str("-1"), Bool(TRUE), Bool(FALSE), Arr0, Arr1(2)}
\* A timestamp the client puts in the body: none, an instant before the
\* services started, a string that is no date, the number 0 (the epoch).
TimestampInputs == {Undef, IsoStr(0 - 1), Str("abc"), Num(0)}
\* A property the routes do not know.
ExtraInputs == {Undef, Str("x")}

\* Every body the validation is checked on.
AllBodies ==
  [username : UsernameInputs, userid : UseridInputs, price : PriceInputs,
   timestamp : TimestampInputs, extra : ExtraInputs]

\* The bodies the whole pipeline is run on.
Bodies ==
  [username : {Str("alice"), Str("bob")}, userid : {Str("u1"), Str("u2")},
   price : {Num(1)}, timestamp : {Undef}, extra : {Undef}]

NoPurchase == [username |-> Undef, userid |-> Undef, price |-> NaN, timestamp |-> Undef]
NoBody == [username |-> Undef, userid |-> Undef, price |-> Undef, timestamp |-> Undef,
           extra |-> Undef]

(***************************************************************************)
(* State.                                                                  *)
(***************************************************************************)
VARIABLES
  \* environment
  now,             \* the last instant read from the clock (ms)
  \* the purchases topic and the consumer group's committed offsets
  log,             \* partition -> sequence of messages
  committed,       \* partition -> committed offset of the group, -1 if none
  \* customer-facing
  cfPhase,         \* connectKafka: "starting", "connecting", "timer", "connected"
  cfKafkaReady,    \* kafkaReady of customer-facing
  reqs,            \* request id -> the POST /buy request and its response
  kafkaProducerMessages,  \* kafka_producer_messages_total
  httpRequestsInFlight,   \* http_requests_in_flight of customer-facing
  \* customer-management
  mPhase,          \* connectMongo: "idle", "connecting", "timer", "connected", "lost",
                   \* "disconnected"
  kPhase,          \* startKafkaConsumer: "idle", "connecting", "starting", "timer",
                   \* "running", "rejoining", "stopped"
  mongoReady,      \* mongoReady of customer-management
  cmKafkaReady,    \* kafkaReady of customer-management
  position,        \* partition -> next offset the running consumer fetches
  resolved,        \* partitions with an offset resolved since the member joined
  sv,              \* the save() the message handler has started and not seen settle
  store,           \* the purchases collection, in insertion order
  kafkaMessagesProcessed, \* kafka_messages_processed_total
  kafkaMessagesInQueue,   \* kafka_messages_in_queue
  \* history
  crashes,         \* abrupt terminations of customer-management so far
  okDeliveries,    \* <<partition, offset>> of every delivery whose save() resolved
  shutdown,        \* the SIGTERM handler of customer-management: "no", "consumer",
                   \* "store", "closing", "exited"
  \* the other routes
  rd,              \* the GET /getAllUserBuys/:userid request and its response
  dw               \* the POST /purchases request and its response

envVars == <<now>>
streamVars == <<log, committed>>
cfVars == <<cfPhase, cfKafkaReady, reqs, kafkaProducerMessages, httpRequestsInFlight>>
cmConnVars == <<mPhase, kPhase, mongoReady, cmKafkaReady>>
cmMsgVars == <<position, resolved, sv, store, kafkaMessagesProcessed, kafkaMessagesInQueue>>
histVars == <<crashes, okDeliveries, shutdown>>
cmVars == <<cmConnVars, cmMsgVars, histVars>>
apiVars == <<rd, dw>>
vars == <<envVars, streamVars, cfVars, cmVars, apiVars>>

(***************************************************************************)
(* The purchases topic.                                                    *)
(***************************************************************************)
\* A message: its partition key, its value, and (history) the POST /buy
\* request that published it (0: another client) and its place in the order
\* of all publications.
Message(key, value, req, pub) == [key |-> key, value |-> value, req |-> req, pub |-> pub]

\* The text JSON.stringify gives for an object with these four properties:
\* the properties in order, an undefined one left out.
PurchaseKeys == <<"username", "userid", "price", "timestamp">>
NumToJson(x) == IF x.nan THEN Null ELSE Num(x.n)
JsonText(fields) == [kind |-> "json", fields |-> fields]
JSONstringify(purchase) ==
  LET all == << <<"username", purchase.username>>, <<"userid", purchase.userid>>,
                <<"price", NumToJson(purchase.price)>>,
                <<"timestamp", purchase.timestamp>> >>
  IN JsonText(SelectSeq(all, LAMBDA kv : kv[2] # Undef))

\* A value that is no JSON text, and the null value of a tombstone.
GarbageText == [kind |-> "garbage", fields |-> <<>>]
NullValue == [kind |-> "null", fields |-> <<>>]

\* kafkajs' default partitioner: a hash of the key modulo the partition count.
KeyHash(key) ==
  CASE key \in {"u1", "alice"} -> 0
    [] key \in {"u2", "bob"} -> 1
    [] OTHER -> 2
AllMessages == UNION {{log[p][i] : i \in 1..Len(log[p])} : p \in Partitions}
NumPublished == Cardinality(AllMessages)

\* A partitioner that ignores the key and takes the partitions in turn.
PartitionRoundRobin(key) == (NumPublished % NumPartitions) + 1

PartitionOf(key) == (KeyHash(key) % NumPartitions) + 1

(***************************************************************************)
(* customer-facing: POST /buy.                                             *)
(***************************************************************************)
NoReq ==
  [st |-> "none", body |-> NoBody, purchase |-> NoPurchase, status |-> 0,
   error |-> "", prior |-> {}, sentWhile |-> "", beforeJoin |-> FALSE,
   aborted |-> FALSE, raw |-> [kind |-> "none", body |-> NoBody], parsed |-> TRUE]

\* (history) No member of the consumer group has joined so far: what is
\* published now is backlog to the group.
NeverJoined == crashes = 0 /\ kPhase \notin {"running", "rejoining"}

\* The requests that have been answered.
Done == {r \in ReqIds : reqs[r].st = "done"}

\* A handler whose price check lets zero through (< for <=).
BadPriceStrict(b) == ToNumber(b.price).nan \/ ToNumber(b.price).n < 0

\* A handler that keys the message by username.
MessageKeyUsername(purchase) == purchase.username.s

\* index.ts:99 and :104, the two checks of the handler.
MissingFields(b) == Falsy(b.username) \/ Falsy(b.userid) \/ b.price = Undef
BadPrice(b) == ToNumber(b.price).nan \/ ToNumber(b.price).n <= 0

\* A handler that keeps the timestamp of the body when it has one.
MakePurchaseBodyTime(b, t) ==
  [username |-> b.username, userid |-> b.userid, price |-> ToNumber(b.price),
   timestamp |-> IF b.timestamp = Undef THEN IsoStr(t) ELSE b.timestamp]

\* index.ts:108-113: the Purchase built from the body at instant t.
MakePurchase(b, t) ==
  [username |-> b.username, userid |-> b.userid, price |-> ToNumber(b.price),
   timestamp |-> IsoStr(t)]

\* index.ts:120: the partition key of the published message.
MessageKey(purchase) == purchase.userid.s

\* index.ts:76-91, the metrics middleware (it runs for every path but
\* /metrics and /health): the gauge goes up when the request enters.
MiddlewareEnter(g) == g + 1

\* index.ts:82-83: the gauge goes down in the listener of the response's
\* 'finish' event, the only listener there is. A response whose connection
\* the client has closed never emits 'finish' (it emits 'close').
ResponseEnds(g, aborted) == IF aborted THEN g ELSE g - 1

\* The text of a request body (Content-Type: application/json): the JSON
\* text of the object b, that text with a comma before its closing brace,
\* and a text with unquoted words. body is what a parser that forgives the
\* comma would make of the text.
BodyText(b) == [kind |-> "json", body |-> b]
TrailingComma(b) == [kind |-> "garbage", body |-> b]
InvalidJson == [kind |-> "garbage", body |-> NoBody]

\* A body parser that forgives what JSON.parse does not.
ExpressJsonLenient(raw) == [ok |-> TRUE, body |-> raw.body]

\* index.ts:11, app.use(express.json()): the parser sets req.body from a
\* JSON text; for any other text it passes a 400 error on, which Express
\* answers itself, and neither the metrics middleware (:76) nor the route
\* runs.
ExpressJson(raw) ==
  IF raw.kind = "json" THEN [ok |-> TRUE, body |-> raw.body]
  ELSE [ok |-> FALSE, body |-> NoBody]

\* A POST /buy request with the body text raw, up to its answer by the
\* parser, or to the handler's 400, or to the handler's await of
\* producer.send().
BuyRaw(r, raw, t) ==
  /\ reqs[r].st = "none"
  /\ IF r = 1 THEN TRUE ELSE reqs[r - 1].st # "none"
  /\ LET parsed == ExpressJson(raw)
         b == parsed.body
     IN /\ now' = IF parsed.ok THEN t ELSE now
        /\ reqs' = [reqs EXCEPT ![r] =
             IF ~parsed.ok
               THEN [NoReq EXCEPT !.st = "done", !.raw = raw, !.parsed = FALSE,
                       !.status = 400, !.prior = Done]
             ELSE IF MissingFields(b)
               THEN [NoReq EXCEPT !.st = "done", !.raw = raw, !.body = b, !.status = 400,
                       !.error = "Missing required fields: username, userid, price",
                       !.prior = Done]
             ELSE IF BadPrice(b)
               THEN [NoReq EXCEPT !.st = "done", !.raw = raw, !.body = b, !.status = 400,
                       !.error = "Price must be a positive number", !.prior = Done]
             ELSE [NoReq EXCEPT !.st = "sending", !.raw = raw, !.body = b,
                     !.purchase = MakePurchase(b, t), !.prior = Done,
                     !.sentWhile = cfPhase]]
        /\ httpRequestsInFlight' =
             IF ~parsed.ok THEN httpRequestsInFlight
             ELSE IF MissingFields(b) \/ BadPrice(b)
               THEN ResponseEnds(MiddlewareEnter(httpRequestsInFlight), FALSE)
             ELSE MiddlewareEnter(httpRequestsInFlight)
  /\ UNCHANGED <<apiVars, streamVars, cfPhase, cfKafkaReady,
                 kafkaProducerMessages, cmVars>>

\* A POST /buy request whose body is the JSON text of the object b.
Buy(r, b, t) == BuyRaw(r, BodyText(b), t)

\* producer.send() can deliver only once the producer has connected.
CanSend == cfPhase = "connected"

\* A producer that keeps a message given to it before it has connected and
\* sends it once it has.
SendQueued(phase) == TRUE

\* producer.send() called on a producer whose connect() has not resolved
\* rejects at once; phase is connectKafka's state at the call.
SendAccepted(phase) == phase \in {"connected", "lost"}

\* producer.send() resolved: one message appended, the counter, the 201.
SendResolved(r) ==
  /\ reqs[r].st = "sending"
  /\ SendAccepted(reqs[r].sentWhile)
  /\ CanSend
  /\ LET purchase == reqs[r].purchase
         key == MessageKey(purchase)
         p == PartitionOf(key)
     IN log' = [log EXCEPT ![p] =
          Append(@, Message(key, JSONstringify(purchase), r, NumPublished + 1))]
  /\ kafkaProducerMessages' = kafkaProducerMessages + 1
  /\ reqs' = [reqs EXCEPT ![r].st = "done", ![r].status = 201,
                ![r].beforeJoin = NeverJoined]
  /\ httpRequestsInFlight' = ResponseEnds(httpRequestsInFlight, reqs[r].aborted)
  /\ UNCHANGED <<apiVars, envVars, committed, cfPhase, cfKafkaReady, cmVars>>

\* A handler that answers 500 although its message was appended (an error
\* thrown after the send resolved).
SendRejectedAfterAppend(r) ==
  /\ reqs[r].st = "sending"
  /\ LET purchase == reqs[r].purchase
         key == MessageKey(purchase)
     IN log' = [log EXCEPT ![PartitionOf(key)] =
          Append(@, Message(key, JSONstringify(purchase), r, NumPublished + 1))]
  /\ reqs' = [reqs EXCEPT ![r].st = "done", ![r].status = 500,
                ![r].error = "Failed to process purchase"]
  /\ httpRequestsInFlight' = ResponseEnds(httpRequestsInFlight, reqs[r].aborted)
  /\ UNCHANGED <<apiVars, envVars, committed, cfPhase, cfKafkaReady,
                 kafkaProducerMessages, cmVars>>

\* A catch that answers with the message of the error it caught.
SendRejectedLeaks(r) ==
  /\ reqs[r].st = "sending"
  /\ reqs' = [reqs EXCEPT ![r].st = "done", ![r].status = 500,
                ![r].error = "KafkaJSConnectionError: Connection timeout"]
  /\ httpRequestsInFlight' = ResponseEnds(httpRequestsInFlight, reqs[r].aborted)
  /\ UNCHANGED <<apiVars, envVars, streamVars, cfPhase, cfKafkaReady,
                 kafkaProducerMessages, cmVars>>

\* producer.send() rejected (the producer is not connected, or the broker did
\* not answer): nothing appended, the catch answers 500.
SendRejected(r) ==
  /\ reqs[r].st = "sending"
  /\ reqs' = [reqs EXCEPT ![r].st = "done", ![r].status = 500,
                ![r].error = "Failed to process purchase"]
  /\ httpRequestsInFlight' = ResponseEnds(httpRequestsInFlight, reqs[r].aborted)
  /\ UNCHANGED <<apiVars, envVars, streamVars, cfPhase, cfKafkaReady,
                 kafkaProducerMessages, cmVars>>

\* The client closes its connection while the handler of request r awaits
\* producer.send(); nothing in the service listens for it, the handler goes
\* on and writes its response to the closed connection.
ClientAbort(r) ==
  /\ reqs[r].st = "sending"
  /\ ~reqs[r].aborted
  /\ reqs' = [reqs EXCEPT ![r].aborted = TRUE]
  /\ UNCHANGED <<apiVars, envVars, streamVars, cfPhase, cfKafkaReady,
                 kafkaProducerMessages, httpRequestsInFlight, cmVars>>

(***************************************************************************)
(* customer-facing: connectKafka.                                          *)
(***************************************************************************)
\* app.listen's callback, or the retry timer, calls connectKafka.
CfConnectStart ==
  /\ cfPhase \in {"starting", "timer"}
  /\ cfPhase' = "connecting"
  /\ UNCHANGED <<apiVars, envVars, streamVars, cfKafkaReady, reqs, kafkaProducerMessages, httpRequestsInFlight, cmVars>>

\* producer.connect() resolved.
CfConnectResolved ==
  /\ cfPhase = "connecting"
  /\ cfPhase' = "connected"
  /\ cfKafkaReady' = TRUE
  /\ UNCHANGED <<apiVars, envVars, streamVars, reqs, kafkaProducerMessages, httpRequestsInFlight, cmVars>>

\* A connectKafka whose catch arms no timer.
CfConnectRejectedNoRetry ==
  /\ cfPhase = "connecting"
  /\ cfPhase' = "failed"
  /\ cfKafkaReady' = FALSE
  /\ UNCHANGED <<apiVars, envVars, streamVars, reqs, kafkaProducerMessages, httpRequestsInFlight, cmVars>>

\* producer.connect() rejected (the broker is not reachable).
CfConnectRejected ==
  /\ cfPhase = "connecting"
  /\ cfPhase' = "timer"
  /\ cfKafkaReady' = FALSE
  /\ UNCHANGED <<apiVars, envVars, streamVars, reqs, kafkaProducerMessages, httpRequestsInFlight, cmVars>>

\* The connection to the broker is lost after it was established. The
\* service registers no listener for it: kafkaReady keeps its value.
CfConnectionLost ==
  /\ cfPhase = "connected"
  /\ cfPhase' = "lost"
  /\ UNCHANGED <<apiVars, envVars, streamVars, cfKafkaReady, reqs, kafkaProducerMessages, httpRequestsInFlight, cmVars>>

\* The client library re-establishes the lost connection.
CfReconnected ==
  /\ cfPhase = "lost"
  /\ cfPhase' = "connected"
  /\ UNCHANGED <<apiVars, envVars, streamVars, cfKafkaReady, reqs, kafkaProducerMessages, httpRequestsInFlight, cmVars>>

(***************************************************************************)
(* customer-facing: the probes.                                            *)
(***************************************************************************)
\* A liveness probe that looks at the connection.
CfHealthChecksKafka ==
  IF cfKafkaReady THEN [status |-> 200, body |-> [status |-> "alive"]]
  ELSE [status |-> 503, body |-> [status |-> "not ready"]]

\* GET /health of customer-facing.
CfHealth == [status |-> 200, body |-> [status |-> "alive"]]

\* GET /ready of customer-facing.
CfReady ==
  IF cfKafkaReady
    THEN [status |-> 200, body |-> [status |-> "ready", kafkaReady |-> TRUE]]
    ELSE [status |-> 503, body |-> [status |-> "not ready", kafkaReady |-> FALSE]]

(***************************************************************************)
(* Environment. Whether the broker or the store answers an operation is the *)
(* environment's choice at each operation: where an operation can both     *)
(* resolve and reject, both actions are enabled.                           *)
(***************************************************************************)
\* A client other than customer-facing appends a message to the topic.
ForeignValues ==
  {NullValue, GarbageText,
   JsonText(<< <<"username", Str("alice")>>, <<"userid", Str("u1")>>,
               <<"price", Num(0)>>, <<"timestamp", IsoStr(0)>> >>),
   JsonText(<< <<"username", Str("alice")>>, <<"userid", Str("u1")>>,
               <<"price", Num(1)>> >>)}
ForeignKeys == {"u1", "u2"}
NumForeign == Cardinality({m \in AllMessages : m.req = 0})

ForeignPublish(key, value) ==
  /\ NumForeign < MaxForeign
  /\ log' = [log EXCEPT ![PartitionOf(key)] =
       Append(@, Message(key, value, 0, NumPublished + 1))]
  /\ UNCHANGED <<apiVars, envVars, committed, cfVars, cmVars>>

(***************************************************************************)
(* customer-management: the Purchase model (purchaseSchema).               *)
(***************************************************************************)
\* JSON.parse of a JSON text: the object, as property -> value (undefined
\* when the text does not carry the property).
FieldOf(fields, k) ==
  LET hits == SelectSeq(fields, LAMBDA kv : kv[1] = k)
  IN IF hits = <<>> THEN Undef ELSE hits[1][2]
JSONparse(value) == [k \in {"username", "userid", "price", "timestamp"} |->
                       FieldOf(value.fields, k)]
\* JSON.parse throws on it.
Unparseable(value) == value.kind = "garbage"

\* mongoose's casts of a path's value: [ok, v], ok FALSE when the value is
\* missing (required) or cannot be cast.
CastString(v) ==
  CASE v.t = "string" -> [ok |-> v.s # "", v |-> v.s]
    [] v.t = "number" -> [ok |-> TRUE, v |-> "<number>"]
    [] v.t = "boolean" -> [ok |-> TRUE, v |-> "<boolean>"]
    [] OTHER -> [ok |-> FALSE, v |-> ""]
CastNumber(v) ==
  CASE v.t = "number" -> [ok |-> TRUE, v |-> v.n]
    [] v.t = "boolean" -> [ok |-> TRUE, v |-> v.n]
    [] v.t = "string" -> [ok |-> v.s \in NumericStrings, v |-> StrToInt(v.s)]
    [] OTHER -> [ok |-> FALSE, v |-> 0]
CastDate(v) ==
  CASE v.t = "string" -> [ok |-> v.s = "iso", v |-> v.n]
    [] v.t = "number" -> [ok |-> TRUE, v |-> v.n]
    [] v.t = "date" -> [ok |-> v.s = "valid", v |-> v.n]
    [] OTHER -> [ok |-> FALSE, v |-> 0]

\* A consumer that stamps the document with the instant it received the
\* message, later than the instant of the request.
NewPurchaseReceiptTime(obj, src) ==
  [username |-> CastString(obj["username"]).v,
   userid |-> CastString(obj["userid"]).v,
   price |-> CastNumber(obj["price"]).v,
   timestamp |-> CastDate(obj["timestamp"]).v + 1,
   src |-> src]

\* new Purchase(obj): the document, and whether its validation passes.
SchemaValid(obj) ==
  /\ CastString(obj["username"]).ok
  /\ CastString(obj["userid"]).ok
  /\ CastNumber(obj["price"]).ok
  /\ CastDate(obj["timestamp"]).ok
NewPurchase(obj, src) ==
  [username |-> CastString(obj["username"]).v,
   userid |-> CastString(obj["userid"]).v,
   price |-> CastNumber(obj["price"]).v,
   timestamp |-> CastDate(obj["timestamp"]).v,
   src |-> src]

\* A save that skips a purchase the collection already holds.
InsertDedup(docs, doc) ==
  IF \E i \in 1..Len(docs) :
       /\ docs[i].username = doc.username /\ docs[i].userid = doc.userid
       /\ docs[i].price = doc.price /\ docs[i].timestamp = doc.timestamp
    THEN docs ELSE Append(docs, doc)

\* A save that replaces the document the collection holds for the userid.
InsertUpsert(docs, doc) ==
  LET same == {i \in 1..Len(docs) : docs[i].userid = doc.userid}
  IN IF same = {} THEN Append(docs, doc)
     ELSE [docs EXCEPT ![CHOOSE i \in same : \A j \in same : i <= j] = doc]

\* save() of a valid document: one more document in the collection.
Insert(docs, doc) == Append(docs, doc)

(***************************************************************************)
(* customer-management: the read routes, and customer-facing's read-through.*)
(***************************************************************************)
\* A sort by ascending timestamp.
AscByTimestamp(d1, d2) == d1.timestamp <= d2.timestamp

\* sort({ timestamp: -1 }): d1 may stand before d2.
DescByTimestamp(d1, d2) == d1.timestamp >= d2.timestamp

\* The ways to fill the places `tied` of the arrangement g, each from its
\* candidates, no index twice.
RECURSIVE Fill(_, _, _)
Fill(cand, tied, g) ==
  IF tied = {} THEN {g}
  ELSE LET q == CHOOSE q \in tied : \A r \in tied : q <= r
       IN UNION {Fill(cand, tied \ {q}, [g EXCEPT ![q] = i]) :
                   i \in {i \in cand[q] : \A r \in DOMAIN g : g[r] # i}}

\* Every arrangement of the documents at the indexes S that the sort allows
\* (the order of documents with equal timestamps is the store's choice): a
\* document stands after all that sort strictly before it, and among those
\* that sort equal to it.
Sorted(docs, S) ==
  LET n == Cardinality(S)
      len == Len(docs)
      before == SubSeq([i \in 1..len |-> Cardinality({k \in S :
                  DescByTimestamp(docs[k], docs[i]) /\ ~DescByTimestamp(docs[i], docs[k])})],
                  1, len)
      upto == SubSeq([i \in 1..len |-> Cardinality({k \in S :
                  DescByTimestamp(docs[k], docs[i])})], 1, len)
      cand == SubSeq([q \in 1..n |-> {i \in S : before[i] < q /\ q <= upto[i]}], 1, n)
      tied == {q \in 1..n : Cardinality(cand[q]) > 1}
      fixed == SubSeq([q \in 1..n |-> IF q \in tied THEN 0 ELSE CHOOSE i \in cand[q] : TRUE],
                      1, n)
  IN {SubSeq([q \in 1..n |-> docs[g[q]]], 1, n) : g \in Fill(cand, tied, fixed)}

\* A filter that takes the parameter for a pattern.
FindByUseridPattern(u) ==
  Sorted(store, {i \in 1..Len(store) : store[i].userid = u \/ u \in {"u", ".*"}})

\* Purchase.find({ userid }).sort({ timestamp: -1 }): the results the store
\* can give.
FindByUserid(u) == Sorted(store, {i \in 1..Len(store) : store[i].userid = u})

\* res.json(purchases): a document as JSON (the date as an ISO string), and
\* a list of documents as a JSON array.
DocToJSON(d) ==
  [username |-> Str(d.username), userid |-> Str(d.userid), price |-> Num(d.price),
   timestamp |-> IsoStr(d.timestamp), id |-> d.src]
DocsToJSON(docs) == SubSeq([i \in 1..Len(docs) |-> DocToJSON(docs[i])], 1, Len(docs))

\* A query of the store resolves or rejects.
FindOutcomes == {"resolved", "rejected"}
ErrorBody(msg) == [error |-> msg]

\* GET /purchases/:userid: the responses the route can give when its query
\* has the outcome find.
PurchasesByUserid(u, find) ==
  IF find = "resolved"
    THEN {[status |-> 200, body |-> DocsToJSON(docs)] : docs \in FindByUserid(u)}
    ELSE {[status |-> 500, body |-> ErrorBody("Failed to fetch purchases")]}

\* The first n elements of a sequence.
Limit(seq, n) == SubSeq(seq, 1, IF Len(seq) < n THEN Len(seq) ELSE n)

\* limit(500)
QueryLimit == 500

\* A query that cuts the collection to its first documents and sorts those.
FindRecentLimitFirst ==
  Sorted(store, 1..(IF Len(store) < QueryLimit THEN Len(store) ELSE QueryLimit))

\* Purchase.find({}).sort({ timestamp: -1 }).limit(500).
FindRecent == {Limit(docs, QueryLimit) : docs \in Sorted(store, 1..Len(store))}

\* GET /purchases.
RecentPurchases(find) ==
  IF find = "resolved"
    THEN {[status |-> 200, body |-> DocsToJSON(docs)] : docs \in FindRecent}
    ELSE {[status |-> 500, body |-> ErrorBody("Failed to fetch purchases")]}

\* The userids a read request carries (the decoded path parameter), and
\* their characters.
QueryUserids == {"u1", "u2", "u9", "u", ".*", "u1/x", "u1?x"}
Chars(x) ==
  CASE x = "u1" -> <<"u", "1">>
    [] x = "u2" -> <<"u", "2">>
    [] x = "u9" -> <<"u", "9">>
    [] x = "u1/x" -> <<"u", "1", "/", "x">>
    [] x = "u1?x" -> <<"u", "1", "?", "x">>
    [] OTHER -> <<x>>
Text(cs) == IF \E x \in QueryUserids : Chars(x) = cs
              THEN CHOOSE x \in QueryUserids : Chars(x) = cs
              ELSE "?"

\* `${CUSTOMER_MANAGEMENT_URL}/purchases/${userid}` as the downstream reads
\* it: the path segments after /purchases/ and the query. The parameter is
\* put in as it is, so a "?" in it starts the query and a "/" a new segment.
Target(u) ==
  LET cs == Chars(u)
      marks == {i \in 1..Len(cs) : cs[i] = "?"}
      cut == IF marks = {} THEN Len(cs) + 1
             ELSE CHOOSE i \in marks : \A j \in marks : i <= j
      path == SubSeq(cs, 1, cut - 1)
      slashes == {i \in 1..Len(path) : path[i] = "/"}
      first == IF slashes = {} THEN Len(path) + 1
               ELSE CHOOSE i \in slashes : \A j \in slashes : i <= j
  IN [path |-> IF slashes = {} THEN <<path>>
               ELSE <<SubSeq(path, 1, first - 1), SubSeq(path, first + 1, Len(path))>>,
      query |-> SubSeq(cs, cut, Len(cs))]

\* customer-management's answer to GET <target>: the route /purchases/:userid
\* matches one segment, anything else is Express's 404.
Downstream(target, find) ==
  IF Len(target.path) = 1 /\ target.path[1] # <<>>
    THEN PurchasesByUserid(Text(target.path[1]), find)
    ELSE {[status |-> 404, body |-> [html |-> "Cannot GET"]]}

\* What axios.get meets: an answer of the downstream, none within the 5 s of
\* its timeout, or no connection at all.
NetOutcomes == {"answered", "timeout", "unreachable"}

\* A handler that passes on whatever the downstream answers.
GetAllUserBuysRelay(u, net, find) ==
  IF net = "answered"
    THEN Downstream(Target(u), find)
    ELSE {[status |-> 500, body |-> ErrorBody("Failed to fetch purchases")]}

\* GET /getAllUserBuys/:userid: a 2xx answer of the downstream is passed on,
\* anything else is caught and answered 500.
GetAllUserBuys(u, net, find) ==
  IF net = "answered"
    THEN {IF resp.status = 200
            THEN [status |-> 200, body |-> resp.body]
            ELSE [status |-> 500, body |-> ErrorBody("Failed to fetch purchases")] :
          resp \in Downstream(Target(u), find)}
    ELSE {[status |-> 500, body |-> ErrorBody("Failed to fetch purchases")]}

\* index.ts:99-131: the response POST /buy has written for the answered
\* request r.
BuyResponse(r) ==
  IF ~reqs[r].parsed
    THEN [status |-> reqs[r].status, body |-> [html |-> "Bad Request"]]
  ELSE IF reqs[r].status = 201
    THEN [status |-> 201,
          body |-> [message |-> "Purchase recorded", purchase |-> reqs[r].purchase]]
    ELSE [status |-> reqs[r].status, body |-> ErrorBody(reqs[r].error)]

\* The response GET /getAllUserBuys/:userid has written.
ReadResponse ==
  [status |-> rd.status, body |-> IF rd.status = 200 THEN rd.docs ELSE rd.error]

\* The store can answer only once mongoose has connected (before that
\* mongoose buffers the operation, until its buffer times out).
StoreUsable == mPhase = "connected"

\* The handler of GET /getAllUserBuys/:userid up to its await: one axios.get
\* is under way.
\* Of the response, docs holds the body of a 200 and error the body of any
\* other status.
NoRead == [st |-> "none", n |-> 0, userid |-> "", calls |-> 0, net |-> "", find |-> "",
           status |-> 0, docs |-> <<>>, error |-> [error |-> ""], aborted |-> FALSE]
ReadStart(u) ==
  /\ rd.st \in {"none", "done"}
  /\ rd.n < MaxReads
  /\ rd' = [NoRead EXCEPT !.st = "waiting", !.n = rd.n + 1, !.userid = u, !.calls = 1]
  /\ httpRequestsInFlight' = MiddlewareEnter(httpRequestsInFlight)
  /\ UNCHANGED <<envVars, streamVars, cfPhase, cfKafkaReady, reqs,
                 kafkaProducerMessages, cmVars, dw>>

\* The promise of axios.get settles (with an answer, or rejected by the
\* timeout or the connection error) and the handler writes its response.
ReadSettle(net, find) ==
  /\ rd.st = "waiting"
  /\ IF net = "answered" /\ find = "resolved" THEN StoreUsable ELSE TRUE
  /\ \E resp \in GetAllUserBuys(rd.userid, net, find) :
       rd' = [rd EXCEPT !.st = "done", !.net = net, !.find = find,
                        !.status = resp.status,
                        !.docs = IF resp.status = 200 THEN resp.body ELSE <<>>,
                        !.error = IF resp.status = 200 THEN NoRead.error ELSE resp.body]
  /\ httpRequestsInFlight' = ResponseEnds(httpRequestsInFlight, rd.aborted)
  /\ UNCHANGED <<envVars, streamVars, cfPhase, cfKafkaReady, reqs,
                 kafkaProducerMessages, cmVars, dw>>

\* The client closes its connection while the handler awaits axios.get.
ClientAbortRead ==
  /\ rd.st = "waiting"
  /\ ~rd.aborted
  /\ rd' = [rd EXCEPT !.aborted = TRUE]
  /\ UNCHANGED <<envVars, streamVars, cfVars, cmVars, dw>>

(***************************************************************************)
(* customer-management: POST /purchases, the direct write of the revision  *)
(* of the service kept as unnamed/part_002 (index.ts has no such route).   *)
(***************************************************************************)
\* new Date(v), and the Date of the instant t.
DateAt(t) == [t |-> "date", n |-> t, s |-> "valid"]
NewDate(v) ==
  CASE v.t = "string" -> [t |-> "date", n |-> v.n, s |-> IF v.s = "iso" THEN "valid" ELSE "invalid"]
    [] v.t = "number" -> [t |-> "date", n |-> v.n, s |-> "valid"]
    [] OTHER -> [t |-> "date", n |-> 0, s |-> "invalid"]

\* part_002:91 and :95-96, the two checks of the route.
WriteMissingFields(b) == Falsy(b.username) \/ Falsy(b.userid) \/ b.price = Undef
WriteBadPrice(b) == ToNumber(b.price).nan \/ ToNumber(b.price).n <= 0

\* part_002:100-105: what the route gives to new Purchase at instant t.
WritePurchase(b, t) ==
  [k \in {"username", "userid", "price", "timestamp"} |->
     CASE k = "username" -> b.username
       [] k = "userid" -> b.userid
       [] k = "price" -> Num(ToNumber(b.price).n)
       [] OTHER -> IF Falsy(b.timestamp) THEN DateAt(t) ELSE NewDate(b.timestamp)]

NoWrite == [n |-> 0, body |-> NoBody, save |-> "", status |-> 0, resp |-> ErrorBody("")]
WriteOutcomes == {"resolved", "rejected"}

\* The whole route: a 400, or save() and the 201 with the document, or the
\* 500 of its catch when save() rejects (the validation of the document
\* fails, or the store does not answer: save).
DirectWrite(b, t, save) ==
  /\ dw.n < MaxWrites
  /\ IF save = "resolved" THEN StoreUsable ELSE TRUE
  /\ LET obj == WritePurchase(b, t)
         doc == NewPurchase(obj, <<0 - 1, dw.n + 1>>)
         answer(status, resp) ==
           [n |-> dw.n + 1, body |-> b, save |-> save, status |-> status, resp |-> resp]
     IN IF WriteMissingFields(b)
          THEN /\ dw' = answer(400, ErrorBody("Missing required fields: username, userid, price"))
               /\ UNCHANGED <<now, store>>
        ELSE IF WriteBadPrice(b)
          THEN /\ dw' = answer(400, ErrorBody("Price must be a positive number"))
               /\ UNCHANGED <<now, store>>
        ELSE IF SchemaValid(obj) /\ save = "resolved"
          THEN /\ dw' = answer(201, DocToJSON(doc))
               /\ store' = Insert(store, doc)
               /\ now' = IF Falsy(b.timestamp) THEN t ELSE now
        ELSE /\ dw' = answer(500, ErrorBody("Failed to write purchase"))
             /\ now' = IF Falsy(b.timestamp) THEN t ELSE now
             /\ UNCHANGED store
  /\ UNCHANGED <<streamVars, cfVars, cmConnVars, position, resolved, sv,
                 kafkaMessagesProcessed, kafkaMessagesInQueue, histVars, rd>>

(***************************************************************************)
(* customer-management: connectMongo and startKafkaConsumer.               *)
(***************************************************************************)
\* app.listen's callback, or the retry timer, calls connectMongo.
MongoConnectStart ==
  /\ mPhase \in {"idle", "timer"}
  /\ mPhase' = "connecting"
  /\ UNCHANGED <<apiVars, envVars, streamVars, cfVars, kPhase, mongoReady, cmKafkaReady,
                 cmMsgVars, histVars>>

\* What the listen callback does when its await of connectMongo() returns:
\* it calls startKafkaConsumer, whether or not the connection succeeded.
AfterConnectMongo(k) == IF k = "idle" THEN "connecting" ELSE k

MongoConnectResolved ==
  /\ mPhase = "connecting"
  /\ mPhase' = "connected"
  /\ mongoReady' = TRUE
  /\ kPhase' = AfterConnectMongo(kPhase)
  /\ UNCHANGED <<apiVars, envVars, streamVars, cfVars, cmKafkaReady, cmMsgVars, histVars>>

MongoConnectRejected ==
  /\ mPhase = "connecting"
  /\ mPhase' = "timer"
  /\ mongoReady' = FALSE
  /\ kPhase' = AfterConnectMongo(kPhase)
  /\ UNCHANGED <<apiVars, envVars, streamVars, cfVars, cmKafkaReady, cmMsgVars, histVars>>

\* consumer.connect() and consumer.subscribe() resolved; kafkaReady is set
\* before consumer.run() is awaited.
KafkaConnectResolved ==
  /\ kPhase = "connecting"
  /\ kPhase' = "starting"
  /\ cmKafkaReady' = TRUE
  /\ UNCHANGED <<apiVars, envVars, streamVars, cfVars, mPhase, mongoReady, cmMsgVars, histVars>>

\* connect(), subscribe() or run() rejected: the catch arms the retry timer.
KafkaStartRejected ==
  /\ kPhase \in {"connecting", "starting"}
  /\ kPhase' = "timer"
  /\ cmKafkaReady' = FALSE
  /\ UNCHANGED <<apiVars, envVars, streamVars, cfVars, mPhase, mongoReady, cmMsgVars, histVars>>

KafkaRetry ==
  /\ kPhase = "timer"
  /\ kPhase' = "connecting"
  /\ UNCHANGED <<apiVars, envVars, streamVars, cfVars, mPhase, mongoReady, cmKafkaReady,
                 cmMsgVars, histVars>>

\* subscribe({fromBeginning: true}): a group without a committed offset
\* starts at the first message of the log.
StartOffsetBeginning(p) == IF committed[p] = 0 - 1 THEN 0 ELSE committed[p]

\* subscribe({fromBeginning: false}): where the member starts in a partition,
\* the group's committed offset, or the end of the log when it has none.
StartOffset(p) == IF committed[p] = 0 - 1 THEN Len(log[p]) ELSE committed[p]

\* consumer.run() resolved: the member has joined the group and fetches.
\* A startKafkaConsumer that arms its timer in a finally block: the timer
\* is armed after consumer.run() resolved as well, and the function runs
\* again on a consumer whose handler is registered.
KafkaRunResolvedRearms ==
  /\ kPhase = "starting"
  /\ kPhase' = "timer"
  /\ position' = [p \in Partitions |-> StartOffset(p)]
  /\ resolved' = {}
  /\ UNCHANGED <<apiVars, envVars, streamVars, cfVars, mPhase, mongoReady, cmKafkaReady,
                 sv, store, kafkaMessagesProcessed, kafkaMessagesInQueue, histVars>>

\* consumer.run() resolved: the handler is registered, the member has
\* joined the group and fetches from the group's offsets.
KafkaRunResolved ==
  /\ kPhase = "starting"
  /\ kPhase' = "running"
  /\ position' = [p \in Partitions |-> StartOffset(p)]
  /\ resolved' = {}
  /\ UNCHANGED <<apiVars, envVars, streamVars, cfVars, mPhase, mongoReady, cmKafkaReady,
                 sv, store, kafkaMessagesProcessed, kafkaMessagesInQueue, histVars>>

\* The store connection is lost after it was established; the driver
\* reconnects by itself. mongoReady is written by connectMongo only.
MongoConnectionLost ==
  /\ mPhase = "connected"
  /\ mPhase' = "lost"
  /\ UNCHANGED <<apiVars, envVars, streamVars, cfVars, kPhase, mongoReady, cmKafkaReady,
                 cmMsgVars, histVars>>

MongoReconnected ==
  /\ mPhase = "lost"
  /\ mPhase' = "connected"
  /\ UNCHANGED <<apiVars, envVars, streamVars, cfVars, kPhase, mongoReady, cmKafkaReady,
                 cmMsgVars, histVars>>

\* The running consumer loses the broker between two handler calls; the
\* promise of consumer.run() has resolved long ago, so the catch of
\* startKafkaConsumer does not run and kafkaReady keeps its value.
KafkaConnectionLost ==
  /\ kPhase = "running"
  /\ sv.st = "none"
  /\ kPhase' = "rejoining"
  /\ UNCHANGED <<apiVars, envVars, streamVars, cfVars, mPhase, mongoReady, cmKafkaReady,
                 cmMsgVars, histVars>>

\* The client library rejoins the group and fetches from the committed offsets.
KafkaRejoined ==
  /\ kPhase = "rejoining"
  /\ kPhase' = "running"
  /\ position' = [p \in Partitions |-> StartOffset(p)]
  /\ resolved' = {}
  /\ UNCHANGED <<apiVars, envVars, streamVars, cfVars, mPhase, mongoReady, cmKafkaReady,
                 sv, store, kafkaMessagesProcessed, kafkaMessagesInQueue, histVars>>

\* GET /health of customer-management.
CmHealth ==
  [status |-> 200,
   body |-> [status |-> "ok", kafkaReady |-> cmKafkaReady, mongoReady |-> mongoReady]]

(***************************************************************************)
(* customer-management: eachMessage, the offsets, a crash.                 *)
(***************************************************************************)
NoSave == [st |-> "none", p |-> 0, off |-> 0, valid |-> FALSE,
           doc |-> NewPurchase(JSONparse(NullValue), <<0, 0>>)]

\* A handler that starts save() and returns without awaiting it.
FireAndForget == FALSE

\* index.ts:136: the handler awaits save(), so it returns (and the offset
\* resolves) only once save() has settled.
AwaitsSave == TRUE

\* The handler is between its call and its return.
HandlerRunning == AwaitsSave /\ sv.st = "pending"

\* A handler without the catch: the error leaves eachMessage, and kafkajs
\* restarts the consumer at the last resolved offset.
HandlerRethrow(pos, p) == [kPhase |-> "starting", position |-> pos, resolved |-> {}]

\* index.ts:139-144: an error in the try block is caught and logged and the
\* handler returns normally: the consumer keeps running and the offset of
\* partition p resolves.
HandlerCatch(pos, p) ==
  [kPhase |-> "running", position |-> [pos EXCEPT ![p] = @ + 1], resolved |-> {p}]

\* The handler returned normally for the message of partition p.
HandlerReturn(pos, p) ==
  [kPhase |-> "running", position |-> [pos EXCEPT ![p] = @ + 1], resolved |-> {p}]

\* A runner that hands over the next message while a handler is running
\* (partitionsConsumedConcurrently above 1).
RunnerConcurrent == TRUE

\* index.ts:126-127: consumer.run is given eachMessage alone, so the runner
\* awaits the handler's promise before it calls the handler again.
RunnerFree == sv.st = "none"

\* The runner calls eachMessage with the next message of partition p; the
\* handler runs to its return or to its await of save().
Deliver(p) ==
  /\ kPhase = "running"
  /\ RunnerFree
  /\ position[p] < Len(log[p])
  /\ LET off == position[p]
         m == log[p][off + 1]
     IN CASE m.value.kind = "null" ->
               \* if (!message.value) return;
               LET out == HandlerReturn(position, p)
               IN /\ position' = out.position
                  /\ resolved' = resolved \cup out.resolved
                  /\ UNCHANGED <<kPhase, sv>>
          [] Unparseable(m.value) ->
               \* JSON.parse throws: inc, catch, finally dec
               LET out == HandlerCatch(position, p)
               IN /\ position' = out.position
                  /\ resolved' = resolved \cup out.resolved
                  /\ kPhase' = out.kPhase
                  /\ UNCHANGED sv
          [] OTHER ->
               LET obj == JSONparse(m.value)
                   out == HandlerReturn(position, p)
               IN /\ sv' = [st |-> "pending", p |-> p, off |-> off,
                            valid |-> SchemaValid(obj),
                            doc |-> NewPurchase(obj, <<p, off>>)]
                  /\ position' = IF AwaitsSave THEN position ELSE out.position
                  /\ resolved' = IF AwaitsSave THEN resolved
                                 ELSE resolved \cup out.resolved
                  /\ UNCHANGED kPhase
  /\ kafkaMessagesInQueue' =
       IF log[p][position[p] + 1].value.kind = "json"
         THEN kafkaMessagesInQueue + 1 ELSE kafkaMessagesInQueue
  /\ UNCHANGED <<apiVars, envVars, streamVars, cfVars, mPhase, mongoReady, cmKafkaReady,
                 store, kafkaMessagesProcessed, histVars>>

\* save() resolved: the document is in the collection.
SaveResolved ==
  /\ sv.st = "pending"
  /\ sv.valid
  /\ StoreUsable
  /\ store' = Insert(store, sv.doc)
  /\ kafkaMessagesProcessed' = kafkaMessagesProcessed + 1
  /\ kafkaMessagesInQueue' = kafkaMessagesInQueue - 1
  /\ okDeliveries' = Append(okDeliveries, <<sv.p, sv.off>>)
  /\ sv' = NoSave
  /\ LET out == HandlerReturn(position, sv.p)
     IN /\ position' = IF AwaitsSave THEN out.position ELSE position
        /\ resolved' = IF AwaitsSave THEN resolved \cup out.resolved ELSE resolved
  /\ UNCHANGED <<apiVars, envVars, streamVars, cfVars, cmConnVars, crashes, shutdown>>

\* A handler that counts the message before it awaits save(): a dropped
\* message is counted as processed.
SaveRejectedCounts ==
  /\ sv.st = "pending"
  /\ kafkaMessagesInQueue' = kafkaMessagesInQueue - 1
  /\ kafkaMessagesProcessed' = kafkaMessagesProcessed + 1
  /\ sv' = NoSave
  /\ LET out == HandlerCatch(position, sv.p)
     IN /\ position' = out.position
        /\ resolved' = resolved \cup out.resolved
        /\ kPhase' = out.kPhase
  /\ UNCHANGED <<apiVars, envVars, streamVars, cfVars, mPhase, mongoReady, cmKafkaReady,
                 store, histVars>>

\* save() rejected: the validation failed, or the store did not answer (it
\* is unreachable, or mongoose's buffer timed out before it connected).
SaveRejected ==
  /\ sv.st = "pending"
  /\ kafkaMessagesInQueue' = kafkaMessagesInQueue - 1
  /\ sv' = NoSave
  /\ LET out == HandlerCatch(position, sv.p)
     IN /\ position' = IF AwaitsSave THEN out.position ELSE position
        /\ resolved' = IF AwaitsSave THEN resolved \cup out.resolved ELSE resolved
        /\ kPhase' = IF AwaitsSave THEN out.kPhase ELSE kPhase
  /\ UNCHANGED <<apiVars, envVars, streamVars, cfVars, mPhase, mongoReady, cmKafkaReady,
                 store, kafkaMessagesProcessed, histVars>>

\* kafkajs commits the resolved offset of partition p (autoCommit), between
\* two calls of the handler.
Commit(p) ==
  /\ kPhase = "running"
  /\ ~HandlerRunning
  /\ p \in resolved
  /\ committed[p] # position[p]
  /\ committed' = [committed EXCEPT ![p] = position[p]]
  /\ UNCHANGED <<apiVars, envVars, log, cfVars, cmVars>>

\* The process terminates abruptly and is started again: what it held in
\* memory is gone, the topic, the group's offsets and the store remain.
Crash ==
  /\ crashes < MaxCrashes
  /\ crashes' = crashes + 1
  /\ mPhase' = "idle"
  /\ kPhase' = "idle"
  /\ mongoReady' = FALSE
  /\ cmKafkaReady' = FALSE
  /\ position' = [p \in Partitions |-> 0]
  /\ resolved' = {}
  /\ sv' = NoSave
  /\ kafkaMessagesProcessed' = 0
  /\ kafkaMessagesInQueue' = 0
  /\ UNCHANGED <<apiVars, envVars, streamVars, cfVars, store, okDeliveries, shutdown>>

(***************************************************************************)
(* customer-management: the SIGTERM handler.                               *)
(***************************************************************************)
\* The process has not exited: its timers and promise callbacks still run.
Alive == shutdown # "exited"

\* index.ts:199-201: the handler logs and calls consumer.disconnect(). The
\* handler clears no timer and sets no flag the connect functions read.
Sigterm ==
  /\ shutdown = "no"
  /\ shutdown' = "consumer"
  /\ UNCHANGED <<apiVars, envVars, streamVars, cfVars, cmConnVars, cmMsgVars,
                 crashes, okDeliveries>>

DisconnectOutcomes == {"resolved", "rejected"}

\* index.ts:201-202: consumer.disconnect() settles, a rejection is dropped
\* by its catch, and the handler calls mongoose.disconnect(). The consumer
\* stops once the handler it is running has returned; an attempt of
\* startKafkaConsumer that is under way or scheduled is not touched.
ConsumerDisconnectSettled(outcome) ==
  /\ shutdown = "consumer"
  /\ IF outcome = "resolved" THEN sv.st = "none" ELSE TRUE
  /\ kPhase' = IF outcome = "resolved" /\ kPhase \in {"running", "rejoining"}
                 THEN "stopped" ELSE kPhase
  /\ shutdown' = "store"
  /\ UNCHANGED <<apiVars, envVars, streamVars, cfVars, mPhase, mongoReady, cmKafkaReady,
                 cmMsgVars, crashes, okDeliveries>>

\* index.ts:202-203: mongoose.disconnect() settles and the handler calls
\* server.close(). An attempt of connectMongo that is under way or
\* scheduled is not touched.
StoreDisconnectSettled ==
  /\ shutdown = "store"
  /\ mPhase' = IF mPhase \in {"connected", "lost"} THEN "disconnected" ELSE mPhase
  /\ shutdown' = "closing"
  /\ UNCHANGED <<apiVars, envVars, streamVars, cfVars, kPhase, mongoReady, cmKafkaReady,
                 cmMsgVars, crashes, okDeliveries>>

\* index.ts:203: the server has closed its connections and the callback of
\* server.close() calls process.exit(0).
Exit ==
  /\ shutdown = "closing"
  /\ shutdown' = "exited"
  /\ UNCHANGED <<apiVars, envVars, streamVars, cfVars, cmConnVars, cmMsgVars,
                 crashes, okDeliveries>>

(***************************************************************************)
(* The specifications.                                                     *)
(***************************************************************************)
Init ==
  /\ now = 0
  /\ log = [p \in Partitions |-> <<>>]
  /\ committed = [p \in Partitions |-> 0 - 1]
  /\ cfPhase = "starting"
  /\ cfKafkaReady = FALSE
  /\ reqs = [r \in ReqIds |-> NoReq]
  /\ kafkaProducerMessages = 0
  /\ httpRequestsInFlight = 0
  /\ mPhase = "idle"
  /\ kPhase = "idle"
  /\ mongoReady = FALSE
  /\ cmKafkaReady = FALSE
  /\ position = [p \in Partitions |-> 0]
  /\ resolved = {}
  /\ sv = NoSave
  /\ store = <<>>
  /\ kafkaMessagesProcessed = 0
  /\ kafkaMessagesInQueue = 0
  /\ crashes = 0
  /\ okDeliveries = <<>>
  /\ shutdown = "no"
  /\ rd = NoRead
  /\ dw = NoWrite

\* The clock read by a request: the last instant read, or a later one.
ClockReads == {now, now + 1}

Next ==
  \/ \E r \in ReqIds, b \in Bodies, t \in ClockReads : Buy(r, b, t)
  \/ \E r \in ReqIds : SendResolved(r)
  \/ \E r \in ReqIds : SendRejected(r)
  \/ CfConnectStart
  \/ CfConnectResolved
  \/ CfConnectRejected
  \/ MongoConnectStart
  \/ MongoConnectResolved
  \/ MongoConnectRejected
  \/ KafkaConnectResolved
  \/ KafkaStartRejected
  \/ KafkaRetry
  \/ KafkaRunResolved
  \/ \E p \in Partitions : Deliver(p)
  \/ SaveResolved
  \/ SaveRejected
  \/ \E p \in Partitions : Commit(p)
  \/ Crash

\* The pipeline: the POST /buy requests, customer-facing's connection, the
\* consumer and its crashes.
Spec == Init /\ [][Next]_vars

\* The pipeline with one POST /buy request and the messages other clients
\* append to the topic.
NextForeign ==
  \/ \E b \in Bodies, t \in ClockReads : Buy(1, b, t)
  \/ SendResolved(1)
  \/ SendRejected(1)
  \/ CfConnectStart
  \/ CfConnectResolved
  \/ CfConnectRejected
  \/ \E k \in ForeignKeys, v \in ForeignValues : ForeignPublish(k, v)
  \/ MongoConnectStart
  \/ MongoConnectResolved
  \/ MongoConnectRejected
  \/ KafkaConnectResolved
  \/ KafkaStartRejected
  \/ KafkaRetry
  \/ KafkaRunResolved
  \/ \E p \in Partitions : Deliver(p)
  \/ SaveResolved
  \/ SaveRejected
  \/ \E p \in Partitions : Commit(p)
  \/ Crash

SpecForeign == Init /\ [][NextForeign]_vars

\* Documents of earlier purchases (their messages are no longer in the
\* topic): n documents, inserted oldest first or newest first, all older than
\* the clock's first instant.
Backlog(n, order) ==
  [i \in 1..n |->
     [username |-> "alice", userid |-> IF i % 2 = 0 THEN "u2" ELSE "u1", price |-> 1,
      timestamp |-> IF order = "oldestFirst" THEN i - n - 1 ELSE 0 - i,
      src |-> <<0, i>>]]
Backlogs ==
  {Backlog(n, order) : n \in 0..2, order \in {"oldestFirst", "newestFirst"}}
    \cup {Backlog(QueryLimit, "newestFirst"), Backlog(QueryLimit + 1, "oldestFirst")}

\* Both services started on a store that already holds a backlog.
InitRecent ==
  /\ now = 0
  /\ log = [p \in Partitions |-> <<>>]
  /\ committed = [p \in Partitions |-> 0 - 1]
  /\ cfPhase = "starting"
  /\ cfKafkaReady = FALSE
  /\ reqs = [r \in ReqIds |-> NoReq]
  /\ kafkaProducerMessages = 0
  /\ httpRequestsInFlight = 0
  /\ mPhase = "idle"
  /\ kPhase = "idle"
  /\ mongoReady = FALSE
  /\ cmKafkaReady = FALSE
  /\ position = [p \in Partitions |-> 0]
  /\ resolved = {}
  /\ sv = NoSave
  /\ store \in Backlogs
  /\ kafkaMessagesProcessed = 0
  /\ kafkaMessagesInQueue = 0
  /\ crashes = 0
  /\ okDeliveries = <<>>
  /\ shutdown = "no"
  /\ rd = NoRead
  /\ dw = NoWrite

\* One POST /buy request and the consumer, on a store with a backlog.
RecentBody == [username |-> Str("bob"), userid |-> Str("u2"), price |-> Num(1),
               timestamp |-> Undef, extra |-> Undef]
NextRecent ==
  \/ \E t \in ClockReads : Buy(1, RecentBody, t)
  \/ SendResolved(1)
  \/ CfConnectStart
  \/ CfConnectResolved
  \/ MongoConnectStart
  \/ MongoConnectResolved
  \/ KafkaConnectResolved
  \/ KafkaRunResolved
  \/ \E p \in Partitions : Deliver(p)
  \/ SaveResolved
  \/ SaveRejected
  \/ \E p \in Partitions : Commit(p)

SpecRecent == InitRecent /\ [][NextRecent]_vars

\* customer-facing alone with the topic: one request, on every body of
\* AllBodies.
NextBuy ==
  \/ \E b \in AllBodies, t \in ClockReads : Buy(1, b, t)
  \/ SendResolved(1)
  \/ SendRejected(1)
  \/ CfConnectStart
  \/ CfConnectResolved
  \/ CfConnectRejected

SpecBuy == Init /\ [][NextBuy]_vars

\* Both services with their connections: the attempts, the retry timers,
\* the losses of an established connection, one POST /buy request and the
\* consumer. A callback that is due runs, and a started attempt settles.
NextConn ==
  \/ \E b \in Bodies, t \in ClockReads : Buy(1, b, t)
  \/ SendResolved(1)
  \/ SendRejected(1)
  \/ CfConnectStart
  \/ CfConnectResolved
  \/ CfConnectRejected
  \/ CfConnectionLost
  \/ CfReconnected
  \/ MongoConnectStart
  \/ MongoConnectResolved
  \/ MongoConnectRejected
  \/ MongoConnectionLost
  \/ MongoReconnected
  \/ KafkaConnectResolved
  \/ KafkaStartRejected
  \/ KafkaRetry
  \/ KafkaRunResolved
  \/ KafkaConnectionLost
  \/ KafkaRejoined
  \/ \E p \in Partitions : Deliver(p)
  \/ SaveResolved
  \/ SaveRejected
  \/ \E p \in Partitions : Commit(p)
  \/ Crash

SpecConn ==
  /\ Init
  /\ [][NextConn]_vars
  /\ WF_vars(CfConnectStart)
  /\ WF_vars(CfConnectResolved \/ CfConnectRejected)
  /\ WF_vars(MongoConnectStart)
  /\ WF_vars(MongoConnectResolved \/ MongoConnectRejected)
  /\ WF_vars(KafkaRetry)
  /\ WF_vars(KafkaConnectResolved \/ KafkaRunResolved \/ KafkaStartRejected)

\* The read-through of customer-facing over the running pipeline: one POST
\* /buy request, valid or not, the consumer, and the GET /getAllUserBuys
\* requests. axios settles every call (its timeout is set), so a handler
\* that waits is resumed.
ProbeBodies ==
  {RecentBody, [RecentBody EXCEPT !.username = Undef], [RecentBody EXCEPT !.price = Num(0)]}
NextRead ==
  \/ \E b \in ProbeBodies, t \in ClockReads : Buy(1, b, t)
  \/ SendResolved(1)
  \/ SendRejected(1)
  \/ CfConnectStart
  \/ CfConnectResolved
  \/ MongoConnectStart
  \/ MongoConnectResolved
  \/ MongoConnectRejected
  \/ KafkaConnectResolved
  \/ KafkaRunResolved
  \/ \E p \in Partitions : Deliver(p)
  \/ SaveResolved
  \/ SaveRejected
  \/ \E p \in Partitions : Commit(p)
  \/ \E u \in QueryUserids : ReadStart(u)
  \/ \E net \in NetOutcomes, find \in FindOutcomes : ReadSettle(net, find)

SpecRead ==
  /\ Init
  /\ [][NextRead]_vars
  /\ WF_vars(\E net \in NetOutcomes, find \in FindOutcomes : ReadSettle(net, find))

\* The requests of customer-facing with clients that may close their
\* connection while a handler waits.
NextHttp ==
  \/ NextRead
  \/ ClientAbort(1)
  \/ ClientAbortRead

SpecHttp == Init /\ [][NextHttp]_vars

\* One POST /buy request on every body the validation is checked on (the
\* property the route does not read left out), followed through the topic
\* and the consumer into the store.
PipeBodies == {b \in AllBodies : b.extra = Undef /\ b.timestamp \in {Undef, IsoStr(0 - 1)}}
NextPipe ==
  \/ \E b \in PipeBodies, t \in ClockReads : Buy(1, b, t)
  \/ SendResolved(1)
  \/ SendRejected(1)
  \/ CfConnectStart
  \/ CfConnectResolved
  \/ MongoConnectStart
  \/ MongoConnectResolved
  \/ KafkaConnectResolved
  \/ KafkaRunResolved
  \/ \E p \in Partitions : Deliver(p)
  \/ SaveResolved
  \/ SaveRejected
  \/ \E p \in Partitions : Commit(p)

SpecPipe == Init /\ [][NextPipe]_vars

\* customer-management from its start to its exit on SIGTERM, fed by one
\* POST /buy request. The steps of the process are taken while it is alive.
\* A save() settles (mongoose's buffer times out when the store does not
\* answer), the disconnects settle, and the server's connections close.
NextTerm ==
  \/ \E t \in ClockReads : Buy(1, RecentBody, t)
  \/ SendResolved(1)
  \/ CfConnectStart
  \/ CfConnectResolved
  \/ Alive /\ MongoConnectStart
  \/ Alive /\ MongoConnectResolved
  \/ Alive /\ MongoConnectRejected
  \/ Alive /\ KafkaConnectResolved
  \/ Alive /\ KafkaStartRejected
  \/ Alive /\ KafkaRetry
  \/ Alive /\ KafkaRunResolved
  \/ Alive /\ \E p \in Partitions : Deliver(p)
  \/ Alive /\ SaveResolved
  \/ Alive /\ SaveRejected
  \/ Alive /\ \E p \in Partitions : Commit(p)
  \/ Sigterm
  \/ \E outcome \in DisconnectOutcomes : ConsumerDisconnectSettled(outcome)
  \/ StoreDisconnectSettled
  \/ Exit

SpecTerm ==
  /\ Init
  /\ [][NextTerm]_vars
  /\ WF_vars(Alive /\ (SaveResolved \/ SaveRejected))
  /\ WF_vars(\E outcome \in DisconnectOutcomes : ConsumerDisconnectSettled(outcome))
  /\ WF_vars(StoreDisconnectSettled)
  /\ WF_vars(Exit)

\* POST /buy with body texts that are not JSON, beside the requests and
\* the consumer of SpecRead.
MalformedTexts == {InvalidJson, TrailingComma(RecentBody)}
NextWire ==
  \/ \E raw \in MalformedTexts, t \in ClockReads : BuyRaw(1, raw, t)
  \/ NextRead

SpecWire == Init /\ [][NextWire]_vars

\* The direct write on every body the validation is checked on, beside one
\* POST /buy request and the store's connection.
WriteBodies == {b \in AllBodies : b.extra = Undef}
NextDirect ==
  \/ \E b \in WriteBodies, t \in ClockReads, save \in WriteOutcomes : DirectWrite(b, t, save)
  \/ \E t \in ClockReads : Buy(1, RecentBody, t)
  \/ SendResolved(1)
  \/ CfConnectStart
  \/ CfConnectResolved
  \/ MongoConnectStart
  \/ MongoConnectResolved
  \/ MongoConnectRejected

SpecDirect == Init /\ [][NextDirect]_vars

(***************************************************************************)
(* Properties.                                                             *)
(***************************************************************************)
\* The places <<partition, index>> of the messages request r published.
MessagesOf(r) ==
  UNION {{<<p, i>> : i \in {j \in 1..Len(log[p]) : log[p][j].req = r}} :
           p \in Partitions}

\* A submission the producer must refuse: a required field is missing,
\* username or userid is the empty string, or price is not a number (a
\* string that spells none), zero or negative.
C1_Refused(b) ==
  \/ b.username = Undef \/ b.userid = Undef \/ b.price = Undef
  \/ b.username = Str("") \/ b.userid = Str("")
  \/ b.price.t = "string" /\ b.price.s \notin NumericStrings
  \/ b.price.t = "number" /\ b.price.n <= 0
  \/ b.price.t = "string" /\ b.price.s \in NumericStrings /\ StrToInt(b.price.s) <= 0

C3_Created ==
  \A r \in ReqIds :
    reqs[r].status = 201 =>
      /\ Cardinality(MessagesOf(r)) = 1
      /\ \A pi \in MessagesOf(r) :
           LET m == log[pi[1]][pi[2]]
               purchase == reqs[r].purchase
           IN /\ reqs[r].body.userid.t = "string"
              /\ m.key = reqs[r].body.userid.s
              /\ pi[1] = PartitionOf(reqs[r].body.userid.s)
              /\ m.value.kind = "json"
              /\ [i \in 1..Len(m.value.fields) |-> m.value.fields[i][1]] = PurchaseKeys
              /\ JSONparse(m.value) =
                   [k \in {"username", "userid", "price", "timestamp"} |->
                      CASE k = "username" -> purchase.username
                        [] k = "userid" -> purchase.userid
                        [] k = "price" -> Num(purchase.price.n)
                        [] OTHER -> purchase.timestamp]
              /\ purchase.username = reqs[r].body.username
              /\ purchase.userid = reqs[r].body.userid
              /\ ~purchase.price.nan
              /\ purchase.timestamp.s = "iso"

\* Two requests of different users and names have both been answered 201.
C3_Witness ==
  /\ \A r \in {1, 2} : reqs[r].status = 201
  /\ reqs[1].body.userid # reqs[2].body.userid
  /\ reqs[1].body.username # reqs[2].body.username

\* C4: a POST /buy never partially succeeds: an answered request is either
\* a 201 with its one message in the topic, or a 400 or 500 with no message
\* of it in the topic; a request not yet answered has no message either.
C4_NoPartialSuccess ==
  \A r \in ReqIds :
    /\ reqs[r].st = "done" =>
         \/ reqs[r].status = 201 /\ Cardinality(MessagesOf(r)) = 1
         \/ reqs[r].status \in {400, 500} /\ MessagesOf(r) = {}
    /\ reqs[r].st # "done" => MessagesOf(r) = {}

\* One request failed with 500 and the other succeeded.
C4_Witness ==
  /\ reqs[1].status = 500
  /\ reqs[2].status = 201

\* The documents (indexes of store) inserted for the message at place pi.
DocsOf(pi) == {k \in 1..Len(store) : store[k].src = <<pi[1], pi[2] - 1>>}
Places == UNION {{<<p, i>> : i \in 1..Len(log[p])} : p \in Partitions}

\* C2: no well-formed message is lost: once the group's committed offset has
\* passed a message POST /buy published (it will not be delivered again),
\* a document of it is in the store.
C2_NeverLost ==
  \A pi \in Places :
    log[pi[1]][pi[2]].req # 0 /\ committed[pi[1]] >= pi[2] => DocsOf(pi) # {}

\* C5: once the consumer group is past the message of a 201 for a fresh
\* userid u, GET /getAllUserBuys/u answers exactly one entry, with the
\* submitted price and userid u.
C5_RoundTrip ==
  \A r \in ReqIds :
    LET u == reqs[r].body.userid.s
    IN ( /\ reqs[r].status = 201
         /\ \A q \in ReqIds \ {r} : reqs[q].body.userid # reqs[r].body.userid
         /\ \A pi \in MessagesOf(r) : committed[pi[1]] >= pi[2] ) =>
         \A resp \in GetAllUserBuys(u, "answered", "resolved") :
           /\ resp.status = 200
           /\ Len(resp.body) = 1
           /\ resp.body[1].userid = Str(u)
           /\ resp.body[1].price = Num(reqs[r].purchase.price.n)

\* C6: while the save() of a message has not settled, the group's committed
\* offset has not passed that message.
C6_NoCommitBeforeSave ==
  sv.st = "pending" => committed[sv.p] <= sv.off

\* A save is pending for the second message of a partition whose first
\* message is committed.
C6_Witness ==
  /\ sv.st = "pending"
  /\ sv.off >= 1
  /\ committed[sv.p] = sv.off

\* C7: no deduplication: the documents of a message are as many as the
\* deliveries of it whose save() resolved.
C7_NoDedup ==
  \A pi \in Places :
    Cardinality(DocsOf(pi)) =
      Cardinality({k \in 1..Len(okDeliveries) : okDeliveries[k] = <<pi[1], pi[2] - 1>>})

\* After a crash before the commit, a purchase has two documents.
C7_Witness ==
  /\ crashes = 1
  /\ \E pi \in Places : Cardinality(DocsOf(pi)) = 2

\* A message value that does not decode as a Purchase: no JSON text, or
\* JSON that the schema rejects.
Undecodable(value) ==
  \/ Unparseable(value)
  \/ value.kind = "json" /\ ~SchemaValid(JSONparse(value))

\* The running consumer's next message of partition p is undecodable.
AtUndecodable(p) ==
  /\ kPhase = "running"
  /\ position[p] < Len(log[p])
  /\ Undecodable(log[p][position[p] + 1].value)

\* C8: a message that cannot be decoded as a Purchase is dropped: it never
\* has a document, the step that ends its handling inserts nothing and moves
\* the partition's offset just past it, and the consumer keeps running (only
\* a crash of the process stops it), so the later messages are handled.
C8_UndecodableDropped ==
  /\ [](\A pi \in Places : Undecodable(log[pi[1]][pi[2]].value) => DocsOf(pi) = {})
  /\ [][\A p \in Partitions :
          AtUndecodable(p) /\ crashes' = crashes =>
            /\ kPhase' = "running"
            /\ position'[p] # position[p] =>
                 /\ position'[p] = position[p] + 1
                 /\ store' = store]_vars

\* An undecodable message was passed and the message after it was stored.
C8_Witness ==
  \E pi \in Places :
    /\ Undecodable(log[pi[1]][pi[2]].value)
    /\ DocsOf(<<pi[1], pi[2] + 1>>) # {}
    /\ DocsOf(pi) = {}

\* The message a document was inserted for.
MessageOfDoc(d) == log[d.src[1]][d.src[2] + 1]

\* C9: absent redelivery, the documents of two POST /buy purchases of the
\* same userid are inserted in the order in which they were published.
C9_PerUserOrder ==
  crashes = 0 =>
    \A a, b \in 1..Len(store) :
      ( /\ a < b
        /\ store[a].userid = store[b].userid
        /\ MessageOfDoc(store[a]).req # 0
        /\ MessageOfDoc(store[b]).req # 0 ) =>
        MessageOfDoc(store[a]).pub < MessageOfDoc(store[b]).pub

\* Two purchases of one userid, submitted under different usernames, are
\* both stored.
C9_Witness ==
  /\ crashes = 0
  /\ Len(store) = 2
  /\ store[1].userid = store[2].userid
  /\ store[1].username # store[2].username

\* C10: when P1 was answered before P2 was requested, both for one userid
\* and with distinct timestamps, and both are stored, GET /purchases/:userid
\* lists every document of P2 before every document of P1.
C10_NewestFirst ==
  \A r1, r2 \in ReqIds :
    ( /\ r1 \in reqs[r2].prior
      /\ reqs[r1].status = 201 /\ reqs[r2].status = 201
      /\ reqs[r1].body.userid = reqs[r2].body.userid
      /\ reqs[r1].purchase.timestamp # reqs[r2].purchase.timestamp
      /\ \A pi \in MessagesOf(r1) \cup MessagesOf(r2) : DocsOf(pi) # {} ) =>
      \A body \in FindByUserid(reqs[r1].body.userid.s) :
        \A i, j \in 1..Len(body) :
          ( /\ MessageOfDoc(body[i]).req = r1
            /\ MessageOfDoc(body[j]).req = r2 ) => j < i

\* P1 then P2 of one userid, with distinct timestamps, are both stored.
C10_Witness ==
  /\ 1 \in reqs[2].prior
  /\ reqs[1].status = 201 /\ reqs[2].status = 201
  /\ reqs[1].body.userid = reqs[2].body.userid
  /\ reqs[1].purchase.timestamp # reqs[2].purchase.timestamp
  /\ \A pi \in MessagesOf(1) \cup MessagesOf(2) : DocsOf(pi) # {}

\* The number of places of a sequence that hold x.
Count(seq, x) == Cardinality({i \in 1..Len(seq) : seq[i] = x})

\* C11: when its query is answered, GET /purchases/:userid responds 200
\* with all and only the stored documents whose userid is exactly the
\* parameter, each as often as it is stored, newest timestamp first; with no
\* such document the body is the empty array.
C11_ExactMatch ==
  \A u \in QueryUserids :
    \A resp \in PurchasesByUserid(u, "resolved") :
      /\ resp.status = 200
      /\ \A i \in 1..Len(resp.body) : resp.body[i].userid = Str(u)
      /\ \A k \in 1..Len(store) :
           Count(resp.body, DocToJSON(store[k])) =
             IF store[k].userid = u THEN Count(store, store[k]) ELSE 0
      /\ \A i, j \in 1..Len(resp.body) :
           i < j => resp.body[i].timestamp.n >= resp.body[j].timestamp.n
      /\ (\A k \in 1..Len(store) : store[k].userid # u) => resp.body = <<>>

\* The store holds purchases of two userids, with different timestamps.
C11_Witness ==
  /\ Len(store) = 2
  /\ \E a, b \in 1..Len(store) :
       store[a].userid # store[b].userid /\ store[a].timestamp # store[b].timestamp

\* C12: for every userid and every outcome of the store's query, the
\* answers GET /getAllUserBuys/:userid can give when the downstream is
\* reached are the answers of GET /purchases/:userid for that userid when
\* the query resolves (200 and the same array, empty when nothing matches).
C12_PassThrough ==
  \A u \in QueryUserids :
    GetAllUserBuys(u, "answered", "resolved") = PurchasesByUserid(u, "resolved")

\* C13: when its query is answered, GET /purchases responds 200 with
\* min(N, 500) of the N stored documents (each stored once), newest
\* timestamp first, and no document it leaves out is newer than one it
\* returns.
C13_RecencyCap ==
  \A resp \in RecentPurchases("resolved") :
    /\ resp.status = 200
    /\ Len(resp.body) = IF Len(store) < 500 THEN Len(store) ELSE 500
    /\ \A i \in 1..(Len(resp.body) - 1) :
         resp.body[i].timestamp.n >= resp.body[i + 1].timestamp.n
    /\ LET returned == {resp.body[i] : i \in 1..Len(resp.body)}
       IN /\ Cardinality(returned) = Len(resp.body)
          /\ \A k \in 1..Len(store) :
               \/ DocToJSON(store[k]) \in returned
               \/ resp.body[Len(resp.body)].timestamp.n >= store[k].timestamp
          /\ returned \subseteq {DocToJSON(store[k]) : k \in 1..Len(store)}

\* 501 documents are stored, the last of them the newest, inserted by the
\* consumer.
C13_Witness ==
  /\ Len(store) = 501
  /\ store[501].src[1] # 0
  /\ \A k \in 1..500 : store[k].timestamp < store[501].timestamp

\* C14: GET /ready of customer-facing answers 200 only while the
\* connection to the event stream is established, and in every other state
\* 503 with the not-ready body.
C14_ReadyOnlyConnected ==
  /\ CfReady.status = 200 => cfPhase = "connected"
  /\ cfPhase # "connected" =>
       CfReady = [status |-> 503, body |-> [status |-> "not ready", kafkaReady |-> FALSE]]

\* C15: each service reports a dependency not ready before its connection
\* has completed, ready once it has succeeded, and not ready again after
\* the connection is lost.
C15_ReadinessTransition ==
  /\ cfPhase \in {"starting", "connecting", "timer"} => CfReady.status = 503
  /\ mPhase \in {"idle", "connecting", "timer"} => ~CmHealth.body.mongoReady
  /\ kPhase \in {"idle", "connecting", "timer"} => ~CmHealth.body.kafkaReady
  /\ cfPhase = "connected" => CfReady.status = 200
  /\ mPhase = "connected" => CmHealth.body.mongoReady
  /\ kPhase \in {"starting", "running"} => CmHealth.body.kafkaReady
  /\ cfPhase = "lost" => CfReady.status = 503
  /\ mPhase = "lost" => ~CmHealth.body.mongoReady
  /\ kPhase = "rejoining" => ~CmHealth.body.kafkaReady

\* C16: GET /health answers 200 on both services in every state, whatever
\* kafkaReady and mongoReady are.
C16_HealthAlways200 ==
  /\ CfHealth.status = 200
  /\ CmHealth.status = 200

\* Both services have failed to connect (all flags are false), and their
\* liveness probes answer 200.
C16_Witness ==
  /\ cfPhase = "timer" /\ ~cfKafkaReady
  /\ mPhase = "timer" /\ ~CmHealth.body.mongoReady
  /\ kPhase = "timer" /\ ~CmHealth.body.kafkaReady
  /\ CfHealth.status = 200
  /\ CmHealth.status = 200

\* C17: customer-management never reports kafkaReady true while its store
\* connection is not established.
C17_ReadyNeedsStore ==
  CmHealth.body.kafkaReady => mPhase = "connected"

\* C18: customer-management starts the stream connection only after the
\* store connection has succeeded in this process, and no message is in the
\* insert handler while the store has never been connected.
C18_StoreBeforeStream ==
  /\ kPhase \in {"connecting", "starting", "running", "rejoining"} =>
       mPhase \in {"connected", "lost"}
  /\ sv.st = "pending" => mPhase \in {"connected", "lost"}

\* C19: a failed connection attempt (of customer-facing's producer, of
\* customer-management's store or consumer) leaves the process running with
\* the flag false and a retry timer armed, without a cap on the attempts;
\* unless the attempts keep failing for ever, the service becomes ready.
C19_RetryUntilReady ==
  /\ [][/\ (cfPhase = "connecting" /\ cfPhase' \notin {"connecting", "connected"}) =>
             (cfPhase' = "timer" /\ ~cfKafkaReady')
        /\ (crashes' = crashes /\ mPhase = "connecting"
              /\ mPhase' \notin {"connecting", "connected"}) =>
             (mPhase' = "timer" /\ ~mongoReady')
        /\ (crashes' = crashes /\ kPhase \in {"connecting", "starting"}
              /\ kPhase' \notin {"connecting", "starting", "running"}) =>
             (kPhase' = "timer" /\ ~cmKafkaReady')]_vars
  /\ ([]<>(cfPhase = "timer") \/ <>[]cfKafkaReady)
  /\ ([]<>(mPhase = "timer") \/ <>[]mongoReady)
  /\ ([]<>(kPhase = "timer") \/ <>[]cmKafkaReady)

\* All three connections have failed and wait for their retry.
C19_Witness ==
  /\ cfPhase = "timer" /\ ~cfKafkaReady
  /\ mPhase = "timer" /\ ~mongoReady
  /\ kPhase = "timer" /\ ~cmKafkaReady

\* C20: a valid POST /buy made while the producer is not connected, or
\* whose publish fails, is answered 500 with no message in the topic; a
\* request has at most one message, and none appears after its response.
C20_NoBufferNoRetry ==
  /\ [](\A r \in ReqIds :
          /\ ( /\ reqs[r].st = "done"
               /\ reqs[r].status # 400
               /\ reqs[r].sentWhile \in {"starting", "connecting", "timer"} ) =>
               reqs[r].status = 500
          /\ reqs[r].status = 500 => MessagesOf(r) = {}
          /\ Cardinality(MessagesOf(r)) <= 1)
  /\ [][\A r \in ReqIds :
          reqs[r].st = "done" => (reqs'[r] = reqs[r] /\ MessagesOf(r)' = MessagesOf(r))]_vars

\* A request made before the producer had connected was answered 500; the
\* producer has connected since and the topic holds no message of it.
C20_Witness ==
  /\ reqs[1].status = 500
  /\ reqs[1].sentWhile = "timer"
  /\ cfPhase = "connected"
  /\ MessagesOf(1) = {}

\* The downstream call of the answered read request failed: it timed out,
\* met no server, or was answered with a status outside 2xx.
ReadFailed ==
  \/ rd.net # "answered"
  \/ \A d \in Downstream(Target(rd.userid), rd.find) : d.status \notin 200..299

\* C21: every GET /getAllUserBuys/:userid request is answered. When its
\* downstream call times out, meets no server or is answered with a status
\* outside 2xx, the answer is the 500 with the generic error; the handler
\* makes one downstream call for a request, and a handler that waits for the
\* call is resumed and answers.
C21_AlwaysAnswers ==
  /\ [](rd.st = "done" /\ ReadFailed =>
          rd.status = 500 /\ rd.error = ErrorBody("Failed to fetch purchases"))
  /\ [](rd.calls <= 1)
  /\ (rd.st = "waiting" ~> rd.st = "done")

\* A read request whose downstream call timed out has been answered.
C21_Witness == rd.st = "done" /\ rd.net = "timeout" /\ rd.status = 500

\* C22: POST /buy answers 201 only to a body whose username and userid are
\* strings that are not empty and whose price is a number above zero; a
\* price given as a string, a boolean or an array is never accepted.
C22_AcceptsOnlyTyped ==
  \A r \in Done :
    reqs[r].status = 201 =>
      /\ reqs[r].body.username.t = "string" /\ reqs[r].body.username.s # ""
      /\ reqs[r].body.userid.t = "string" /\ reqs[r].body.userid.s # ""
      /\ reqs[r].body.price.t = "number" /\ reqs[r].body.price.n > 0

\* The fixed messages the catch blocks of the routes answer with.
GenericMessages == {"Failed to process purchase", "Failed to fetch purchases"}

\* A response outside 2xx carries {error: <string>}, and a 500 one of the
\* fixed messages.
ErrorShaped(resp) ==
  IF resp.status \in 200..299 THEN TRUE
  ELSE /\ DOMAIN resp.body = {"error"}
       /\ resp.status = 500 => resp.body.error \in GenericMessages

\* The responses of the route handlers other than the readiness probe.
HandlersErrorShaped ==
  /\ \A r \in Done : ErrorShaped(BuyResponse(r))
  /\ rd.st = "done" => ErrorShaped(ReadResponse)
  /\ \A u \in QueryUserids, find \in FindOutcomes :
       \A resp \in PurchasesByUserid(u, find) : ErrorShaped(resp)
  /\ \A find \in FindOutcomes : \A resp \in RecentPurchases(find) : ErrorShaped(resp)
  /\ ErrorShaped(CfHealth)
  /\ ErrorShaped(CmHealth)

\* C23 as stated: every response of the two services with a status outside
\* 2xx has the body {error: <string>}, and a failure of the stream, the store
\* or the downstream call is answered with a fixed generic message.
C23_AllErrorsShaped == HandlersErrorShaped /\ ErrorShaped(CfReady)

\* C23, amended: every response outside 2xx that a route handler writes has
\* the body {error: <string>} with a fixed generic message on a 500, except
\* the 503 of GET /ready, whose body is {status: 'not ready', kafkaReady:
\* false}.
C23_HandlerErrorsShaped ==
  /\ HandlersErrorShaped
  /\ CfReady.status \notin 200..299 =>
       CfReady.body = [status |-> "not ready", kafkaReady |-> FALSE]

\* POST /buy has answered 400 and GET /getAllUserBuys 500.
C23_Witness ==
  /\ 1 \in Done /\ reqs[1].status = 400
  /\ rd.st = "done" /\ rd.status = 500

\* C24: two valid POST /buy requests of one user that are in flight at the
\* same time and are both answered 201 have appended exactly two messages,
\* and once the consumer group is past both messages GET /getAllUserBuys
\* answers at least two entries for that user.
C24_ConcurrentRecorded ==
  ( /\ reqs[1].status = 201 /\ reqs[2].status = 201
    /\ 1 \notin reqs[2].prior
    /\ reqs[1].body.userid = reqs[2].body.userid ) =>
      /\ Cardinality(MessagesOf(1) \cup MessagesOf(2)) = 2
      /\ (\A pi \in MessagesOf(1) \cup MessagesOf(2) : committed[pi[1]] >= pi[2]) =>
           \A resp \in GetAllUserBuys(reqs[1].body.userid.s, "answered", "resolved") :
             resp.status = 200 /\ Len(resp.body) >= 2

\* C25: POST /purchases accepts and refuses the bodies POST /buy accepts and
\* refuses: a body POST /buy refuses is answered 400 and nothing is stored,
\* and a body POST /buy accepts is, when the store takes the save, answered
\* 201 with the one document stored for it.
C25_DirectWriteAsBuy ==
  [][dw'.n # dw.n =>
       IF MissingFields(dw'.body) \/ BadPrice(dw'.body)
         THEN dw'.status = 400 /\ store' = store
         ELSE dw'.save = "resolved" =>
                /\ dw'.status = 201
                /\ Len(store') = Len(store) + 1
                /\ dw'.resp = DocToJSON(store'[Len(store')])]_vars

\* C26: a POST /purchases answered 201 has inserted exactly one document and
\* appended nothing to the topic, and the timestamp of the document is the
\* one the body gives, or the instant of the request when the body gives
\* none.
C26_DirectWriteInserts ==
  [][dw'.n # dw.n /\ dw'.status = 201 =>
       /\ Len(store') = Len(store) + 1
       /\ SubSeq(store', 1, Len(store)) = store
       /\ log' = log
       /\ store'[Len(store')].timestamp =
            IF dw'.body.timestamp.t \in {"undefined", "null"}
              THEN now' ELSE dw'.body.timestamp.n]_vars

\* C27: stored purchases are never changed or removed: every step leaves
\* the documents of the collection as they are and at most adds documents
\* after them, and every entry GET /purchases/:userid answers for a userid
\* is an entry of every answer it gives for that userid after the step.
C27_Immutable ==
  [][/\ Len(store') >= Len(store)
     /\ SubSeq(store', 1, Len(store)) = store
     /\ \A u \in {"u1", "u2"} :
          \A resp \in PurchasesByUserid(u, "resolved") :
            \A later \in (PurchasesByUserid(u, "resolved"))' :
              \A i \in 1..Len(resp.body) :
                \E j \in 1..Len(later.body) : later.body[j] = resp.body[i]]_vars

\* A second purchase of a user has been stored after the first.
C27_Witness ==
  /\ Len(store) >= 2
  /\ store[1].userid = store[2].userid
  /\ store[1].src # store[2].src

\* C28: the subscription starts at the committed offset of the group and
\* not at the start of the topic: no step stores a further document for a
\* message the committed offset has passed (a restart included), and a
\* message published before the first member of the group joined is never
\* stored.
C28_FromCommitted ==
  /\ [][\A pi \in Places :
          committed[pi[1]] >= pi[2] =>
            Cardinality(DocsOf(pi)') = Cardinality(DocsOf(pi))]_vars
  /\ [](\A r \in ReqIds :
          reqs[r].beforeJoin => \A pi \in MessagesOf(r) : DocsOf(pi) = {})

\* The service has been restarted and consumes again; the group has a
\* committed offset, and a message published before its first member joined
\* is in the topic.
C28_Witness ==
  /\ crashes = 1
  /\ kPhase = "running"
  /\ \E p \in Partitions : committed[p] >= 1 /\ position[p] = Len(log[p])
  /\ \E r \in ReqIds : reqs[r].status = 201 /\ reqs[r].beforeJoin

\* C29: the timestamp of a purchase POST /buy publishes is the instant the
\* producer read from its clock, whatever timestamp or other property the
\* body carries, and the published value has exactly the properties
\* username, userid, price and timestamp, the first two as the body gives
\* them.
C29_ProducerTimestamp ==
  \A pi \in MessagesOf(1) :
    LET m == log[pi[1]][pi[2]]
    IN /\ [i \in 1..Len(m.value.fields) |-> m.value.fields[i][1]] = PurchaseKeys
       /\ FieldOf(m.value.fields, "timestamp") = IsoStr(now)
       /\ FieldOf(m.value.fields, "username") = reqs[1].body.username
       /\ FieldOf(m.value.fields, "userid") = reqs[1].body.userid

\* A purchase whose body carried a timestamp of its own and a property the
\* route does not know has been published.
C29_Witness ==
  /\ reqs[1].status = 201
  /\ reqs[1].body.timestamp = IsoStr(0 - 1)
  /\ reqs[1].body.extra = Str("x")
  /\ MessagesOf(1) # {}

\* The value decodes as JSON and carries the four required properties.
CarriesRequired(value) ==
  /\ value.kind = "json"
  /\ \A k \in {"username", "userid", "price", "timestamp"} : FieldOf(value.fields, k) # Undef

\* C30: when the message handler is done with a message, it has inserted
\* one document of it if the message decodes as JSON and carries username,
\* userid, price and timestamp, whatever the price, and has inserted nothing
\* otherwise.
C30_InsertsIffWellFormed ==
  [][\A p \in Partitions :
       ( /\ kPhase = "running" /\ kPhase' = "running"
         /\ position[p] < Len(log[p])
         /\ position' = [position EXCEPT ![p] = @ + 1] ) =>
           IF CarriesRequired(log[p][position[p] + 1].value)
             THEN /\ Len(store') = Len(store) + 1
                  /\ store'[Len(store')].src = <<p, position[p]>>
             ELSE store' = store]_vars

(***************************************************************************)
(* C31: within one consumer process the handler runs for one message at a  *)
(* time: kafka_messages_in_queue is 0 or 1, it is 1 exactly while a        *)
(* message is being processed and 0 whenever none is, whether the last     *)
(* message was stored, dropped or had an empty value.                      *)
(***************************************************************************)
C31_QueueGaugeSerial ==
  /\ kafkaMessagesInQueue \in {0, 1}
  /\ (sv.st = "none") => (kafkaMessagesInQueue = 0)
  /\ (sv.st = "pending") => (kafkaMessagesInQueue = 1)

\* A message is being processed after an earlier one was stored and another
\* one was dropped or had an empty value.
C31_Witness ==
  /\ sv.st = "pending"
  /\ kafkaMessagesInQueue = 1
  /\ \E p \in Partitions : position[p] > 0
  /\ \/ Len(store) > 0
     \/ \E p \in Partitions : \E k \in 1..position[p] : log[p][k].value.kind # "json"

(***************************************************************************)
(* C32: the counters count successes only. kafka_producer_messages_total   *)
(* is the number of POST /buy requests answered 201, which is the number   *)
(* of messages POST /buy appended; a request answered 400 or 500 leaves it *)
(* alone. kafka_messages_processed_total of a consumer process grows by    *)
(* one with every insert of the handler and with nothing else: a dropped   *)
(* message leaves it alone, and a new process starts at 0.                 *)
(***************************************************************************)
C32_CountersCountSuccesses ==
  /\ [](/\ kafkaProducerMessages = Cardinality({r \in ReqIds : reqs[r].status = 201})
        /\ kafkaProducerMessages = Cardinality(UNION {MessagesOf(r) : r \in ReqIds}))
  /\ [][kafkaMessagesProcessed' =
          IF crashes' # crashes THEN 0
          ELSE kafkaMessagesProcessed + (Len(store') - Len(store))]_vars
  /\ [](crashes = 0 => kafkaMessagesProcessed = Len(okDeliveries))

\* A request was answered 201 and counted and its message was dropped
\* without being counted.
C32_Witness ==
  /\ reqs[1].status = 201
  /\ kafkaProducerMessages = 1
  /\ \E p \in Partitions : position[p] = 1 /\ Len(log[p]) = 1
  /\ sv.st = "none"
  /\ store = <<>>
  /\ kafkaMessagesProcessed = 0

(***************************************************************************)
(* C33: http_requests_in_flight of customer-facing is the number of        *)
(* requests being handled (POST /buy awaiting its send, GET                *)
(* /getAllUserBuys awaiting the downstream call): never negative, 0 when   *)
(* no request is in progress, also after a client closed its connection    *)
(* before the response was written.                                        *)
(***************************************************************************)
InProgress ==
  Cardinality({r \in ReqIds : reqs[r].st = "sending"})
    + (IF rd.st = "waiting" THEN 1 ELSE 0)

C33_InFlightIsInProgress ==
  /\ httpRequestsInFlight >= 0
  /\ httpRequestsInFlight = InProgress

(***************************************************************************)
(* C34: every document the message handler inserted from a message of POST *)
(* /buy has a username and a userid that are not empty, a price that is a  *)
(* number above zero, and the timestamp of the purchase in that request's   *)
(* 201 response.                                                           *)
(***************************************************************************)
C34_StoredAsAnswered ==
  \A k \in 1..Len(store) :
    LET d == store[k]
        r == MessageOfDoc(d).req
    IN r # 0 =>
         /\ d.username # "" /\ d.userid # ""
         /\ d.price \in Nat /\ d.price > 0
         /\ BuyResponse(r).status = 201
         /\ BuyResponse(r).body.purchase.timestamp = IsoStr(d.timestamp)

\* A purchase whose price was given as a string, at an instant after the
\* start of the clock, has been stored.
C34_Witness ==
  /\ Len(store) = 1
  /\ MessageOfDoc(store[1]).req = 1
  /\ reqs[1].body.price.t = "string"
  /\ store[1].timestamp = 1

(***************************************************************************)
(* C35: for each dependency (the producer's connection, the store's        *)
(* connection, the consumer's subscription) within one process: an attempt *)
(* is started only by the listen callback or by the retry timer it uses up;*)
(* a timer is armed only by a failed attempt, which sets the ready flag to *)
(* false; every attempt ends established or with its timer armed; and once *)
(* established no attempt is started and no timer armed, so the message    *)
(* handler is registered at most once.                                     *)
(***************************************************************************)
Established == {"connected", "lost", "running", "rejoining"}
InAttempt == {"connecting", "starting"}

\* One step of a dependency whose phase goes from a to b, ready being the
\* flag after the step and first the phase before the first attempt.
OneAttemptStep(a, b, ready, first) ==
  /\ (b = "connecting" /\ a # "connecting") => a \in {first, "timer"}
  /\ (b = "timer" /\ a # "timer") => (a \in InAttempt /\ ~ready)
  /\ (a \in InAttempt /\ b # a) => b \in InAttempt \cup Established \cup {"timer"}
  /\ a \in Established => b \in Established
  /\ b = first => a = first

C35_OneAttempt ==
  [][crashes' = crashes =>
       /\ OneAttemptStep(cfPhase, cfPhase', cfKafkaReady', "starting")
       /\ OneAttemptStep(mPhase, mPhase', mongoReady', "idle")
       /\ OneAttemptStep(kPhase, kPhase', cmKafkaReady', "idle")
       /\ (kPhase' = "starting" /\ kPhase # "starting") => kPhase = "connecting"]_vars

\* An attempt at the store failed and its timer is armed, while the
\* consumer is running and the producer is connected.
C35_Witness ==
  /\ mPhase = "timer"
  /\ kPhase = "running"
  /\ cfPhase = "connected"
  /\ ~mongoReady
  /\ crashes = 0

(***************************************************************************)
(* C36: on SIGTERM customer-management disconnects the consumer, then the  *)
(* store, then closes the server and exits; after the store's disconnect   *)
(* has begun no save() is started, after SIGTERM no connection attempt is  *)
(* started, and the process eventually exits.                              *)
(***************************************************************************)
ShutdownOrder == <<"no", "consumer", "store", "closing", "exited">>
ShutdownRank(x) == CHOOSE i \in 1..Len(ShutdownOrder) : ShutdownOrder[i] = x

C36_GracefulShutdown ==
  /\ [][/\ shutdown' # shutdown => ShutdownRank(shutdown') = ShutdownRank(shutdown) + 1
        /\ (kPhase' = "stopped" /\ kPhase # "stopped") => shutdown = "consumer"
        /\ (mPhase' = "disconnected" /\ mPhase # "disconnected") => shutdown = "store"
        /\ ShutdownRank(shutdown) >= ShutdownRank("store") =>
             ~(sv.st = "none" /\ sv'.st = "pending")
        /\ shutdown # "no" =>
             /\ ~(mPhase = "timer" /\ mPhase' = "connecting")
             /\ ~(kPhase = "timer" /\ kPhase' = "connecting")]_vars
  /\ (shutdown # "no") ~> (shutdown = "exited")

(***************************************************************************)
(* C37: a POST /buy whose body is not valid JSON (a trailing comma,        *)
(* unquoted words) is answered 400 before the handler runs: the answer is  *)
(* not one of the handler's, no purchase is built, the request is not      *)
(* counted in flight, and no message of it is ever appended.               *)
(***************************************************************************)
C37_MalformedRejected ==
  \A r \in ReqIds :
    reqs[r].raw.kind = "garbage" =>
      /\ reqs[r].st = "done"
      /\ BuyResponse(r).status = 400
      /\ BuyResponse(r).body \notin {ErrorBody(reqs[r].error)}
      /\ reqs[r].purchase = NoPurchase
      /\ MessagesOf(r) = {}
      /\ kafkaProducerMessages = Cardinality({q \in ReqIds : reqs[q].status = 201})
      /\ httpRequestsInFlight = InProgress

\* The body with the trailing comma was refused while the producer was
\* connected and the consumer running.
C37_Witness ==
  /\ reqs[1].raw = TrailingComma(RecentBody)
  /\ reqs[1].status = 400
  /\ cfPhase = "connected"
  /\ kPhase = "running"

====
